---------------------------- MODULE Spec2Model ----------------------------
(***************************************************************************)
(* ARMDebug: bit-banged ARM Serial Wire Debug link                         *)
(* (testjig/production/arm_debug.cpp).                                     *)
(*                                                                         *)
(* A 32-bit word (uint32_t) is the set of the indices of its set bits, a   *)
(* subset of 0..31: AND is intersection, OR is union, XOR is symmetric     *)
(* difference, and a shift moves the indices.  Small `unsigned` values     *)
(* (register addresses, port numbers, counters) are integers.              *)
(*                                                                         *)
(* The program is single threaded.  A step of the model is the code that   *)
(* runs between two answers of the target: one iteration of the do/while   *)
(* of dpWrite or dpRead (header, acknowledge, data phase), or the code of  *)
(* a caller between the return of one transaction and the start of the     *)
(* next.  The target is the environment: it chooses each acknowledge, each *)
(* data word and each parity bit.                                          *)
(***************************************************************************)
EXTENDS Integers, Sequences, FiniteSets, TLC

(***************************************************************************)
(* Bounds of the model.                                                    *)
(***************************************************************************)
\* Width in bits of `unsigned` in the model.  The build has 32 (16 on AVR);
\* the retry counters wrap modulo 2^UnsignedBits exactly as in the code.
UnsignedBits == 4
\* The observer's count of request headers of one transaction saturates here.
HdrCap == 12
\* Largest count passed to the vectorized memStore / memLoad.
MaxCount == 3
\* Number of low bits of addr that vary in the calls of packHeader on its own.
AddrBits == 8
\* evenParity is called on its own on the words with at most this many bits
\* set and on the words with at most this many bits clear.
MaxSetBits == 3

(***************************************************************************)
(* Words.                                                                  *)
(***************************************************************************)
WordBits == 32
BitIdx == 0 .. (WordBits - 1)

\* The bits of a non-negative integer below 2^31, as a word.
ToWord(n) == { i \in 0..30 : (n \div (2^i)) % 2 = 1 }

\* hi:lo, two 16-bit halves, as a word.
Word(hi, lo) == ToWord(lo) \cup { i + 16 : i \in ToWord(hi) }

RECURSIVE SumPow(_)
SumPow(s) == IF s = {} THEN 0
             ELSE LET i == CHOOSE x \in s : TRUE
                  IN  2^i + SumPow(s \ {i})

\* The value of a word that fits in 31 bits.
ToInt(w) == SumPow(w)

BitAnd(a, b) == a \cap b
BitOr(a, b)  == a \cup b
BitXor(a, b) == (a \ b) \cup (b \ a)
Shr(w, k)    == { i - k : i \in { j \in w : j >= k } }
Shl(w, k)    == { i + k : i \in { j \in w : j + k < WordBits } }

\* word + 1 modulo 2^32
Inc(w) == IF w = BitIdx THEN {}
          ELSE LET k == CHOOSE i \in BitIdx : i \notin w /\ \A j \in 0..(i-1) : j \in w
               IN  (w \ (0..(k-1))) \cup {k}

\* `unsigned` arithmetic of the counters
UIntMod == 2^UnsignedBits
Dec(n) == (n + UIntMod - 1) % UIntMod

BoolBit(b) == IF b THEN 1 ELSE 0

(***************************************************************************)
(* Register addresses and bit masks.                                       *)
(***************************************************************************)
IDCODE   == 0
CTRLSTAT == 4
SELECT   == 8
RDBUFF   == 12

CSYSPWRUPACK == {31}
CSYSPWRUPREQ == {30}
CDBGPWRUPACK == {29}
CDBGPWRUPREQ == {28}

MEM_CSW == 0
MEM_TAR == 4
MEM_DRW == 12
MEM_IDR == 252

\* cache.select = 0xFFFFFFFF
CacheInvalid == BitIdx

\* 0x0FF00001 and 0x0ba00001
IdcodeMask == Word(4080, 1)
IdcodePart == Word(2976, 1)

\* (1 << 6) | (1 << 4) | (2 << 0)
DefaultCsw == BitOr(BitOr(Shl(ToWord(1), 6), Shl(ToWord(1), 4)), Shl(ToWord(2), 0))

DpRetries == 10
PowerRetries == 4

(***************************************************************************)
(* packHeader and evenParity.                                              *)
(***************************************************************************)
XorBit(a, b) == (a + b) % 2

\* Mutant: a3 is left out of the parity.
packHeaderParityNoA3(addr, APnDP, RnW) ==
    LET a2 == (addr \div 4) % 2
        parity == XorBit(XorBit(BoolBit(APnDP), BoolBit(RnW)), a2)
    IN  BitOr(BitOr(BitOr(Shl(ToWord(1), 0),
                          Shl(ToWord(BoolBit(APnDP)), 1)),
                    BitOr(Shl(ToWord(BoolBit(RnW)), 2),
                          Shl(BitAnd(ToWord(addr), ToWord(12)), 1))),
              BitOr(Shl(ToWord(parity), 5),
                    Shl(ToWord(1), 7)))

packHeader(addr, APnDP, RnW) ==
    LET a2 == (addr \div 4) % 2
        a3 == (addr \div 8) % 2
        parity == XorBit(XorBit(BoolBit(APnDP), BoolBit(RnW)), XorBit(a2, a3))
    IN  BitOr(BitOr(BitOr(Shl(ToWord(1), 0),
                          Shl(ToWord(BoolBit(APnDP)), 1)),
                    BitOr(Shl(ToWord(BoolBit(RnW)), 2),
                          Shl(BitAnd(ToWord(addr), ToWord(12)), 1))),
              BitOr(Shl(ToWord(parity), 5),
                    Shl(ToWord(1), 7)))

\* Mutant: the halves are combined with | in place of ^.
ParityFoldOr(w, k) == BitOr(BitAnd(w, 0..(k-1)), Shr(w, k))

ParityFold(w, k) == BitXor(BitAnd(w, 0..(k-1)), Shr(w, k))

\* Mutant: the first fold, of the high half onto the low half, is left out.
evenParityLowHalf(word) ==
    LET w8  == ParityFold(BitAnd(word, 0..15), 8)
        w4  == ParityFold(w8, 4)
        w2  == ParityFold(w4, 2)
        w1  == ParityFold(w2, 1)
    IN  IF w1 = {} THEN 0 ELSE 1

evenParity(word) ==
    LET w16 == ParityFold(word, 16)
        w8  == ParityFold(w16, 8)
        w4  == ParityFold(w8, 4)
        w2  == ParityFold(w4, 2)
        w1  == ParityFold(w2, 1)
    IN  IF w1 = {} THEN 0 ELSE 1


(***************************************************************************)
(* Inputs the model draws from.                                            *)
(***************************************************************************)
\* Acknowledge values the target answers a request header with: every
\* 3-bit value; 1 is OK, 2 is WAIT, 4 is FAULT.
AckValues == 0..7

\* Words the target may return in a data phase:
\*   0x2BA01477  IDCODE of a Cortex-M debug port over SWD; as CTRLSTAT it
\*               carries only one of the two power-up acknowledges
\*   0xFFFFFFFF  no recognisable IDCODE; as CTRLSTAT both acknowledges
\*   0x04770021  IDR of an AHB-AP (low nybble 1), odd parity
TargetWords == { Word(11168, 5239), BitIdx, Word(1143, 33) }

\* Contents of the caller's buffer before a load: 0xDEADBEEF.
PriorWords == { Word(57005, 48879) }

\* The buffer the caller stores: 0x11, 0x22, 0x33, ...
StoreBuffer(n) == [i \in 1..n |-> ToWord(17 * i)]

\* Memory addresses passed to memStore / memLoad: 0x20000000, 0xFFFFFFFF.
MemAddrs == { Word(8192, 0), BitIdx }

\* Access ports and AP registers of direct apRead / apWrite calls.
Ports == {0, 1}
ApRegs == {MEM_CSW, MEM_DRW, MEM_IDR}

\* DP registers of direct dpRead / dpWrite calls.
DpReadRegs == {IDCODE, RDBUFF}
DpWriteRegs == {IDCODE, CTRLSTAT, SELECT}

(***************************************************************************)
(* Wire layer.  Each primitive is one wire operation: what it does to the  *)
(* data pin and how many clock pulses it produces.  WireRun gives the      *)
(* operations of a step in order, each with the mode the data pin is in    *)
(* while its clock pulses occur, and the mode the pin is left in.          *)
(***************************************************************************)
\* wireWrite(data, nBits): the low nBits bits of data, LSB first, one clock
\* pulse each.
wireWrite(data, nBits) ==
    [op |-> "write", n |-> nBits, val |-> BitAnd(data, 0..(nBits-1))]

\* The value wireRead assembles from the bits the target drives, first bit
\* into mask 1, mask <<= 1 after each.
wireReadValue(bits) == { i \in 0..(Len(bits)-1) : bits[i+1] = 1 }

\* The bits the target drives to send the low n bits of w, LSB first.
TargetBits(w, n) == [i \in 1..n |-> IF (i-1) \in w THEN 1 ELSE 0]

\* The three bits the target drives in answer to a request header.
AckBits == { TargetBits(ToWord(a), 3) : a \in AckValues }

\* wireRead(nBits) while the target drives bits: one clock pulse per bit.
wireRead(bits) ==
    [op |-> "read", n |-> Len(bits), val |-> wireReadValue(bits)]

\* Mutant: the final pinMode(OUTPUT) is left out.
wireWriteTurnaroundNoOutput == [op |-> "trnR", n |-> 1, val |-> {}]

\* pinMode(INPUT_PULLUP), one clock pulse, pinMode(OUTPUT)
wireWriteTurnaround == [op |-> "trnW", n |-> 1, val |-> {}]

\* pinMode(INPUT_PULLUP), one clock pulse
wireReadTurnaround == [op |-> "trnR", n |-> 1, val |-> {}]

IsTurnaround(c) == c.op \in {"trnW", "trnR"}

\* Mutant: wireReadTurnaround does not change the mode of the pin.
ModeAfterWriteTurnaroundsOnly(calls, i, mode0) ==
    LET T == { j \in 1..i : calls[j].op = "trnW" }
    IN  IF T = {} THEN mode0 ELSE "OUTPUT"

\* Mode of the data pin after the first i of the operations, from mode0.
ModeAfter(calls, i, mode0) ==
    LET T == { j \in 1..i : IsTurnaround(calls[j]) }
    IN  IF T = {} THEN mode0
        ELSE LET last == CHOOSE j \in T : \A k \in T : k <= j
             IN  IF calls[last].op = "trnW" THEN "OUTPUT" ELSE "INPUT_PULLUP"

WireOps(c, mode0) ==
    [mode |-> ModeAfter(c, Len(c), mode0),
     ops  |-> [i \in 1..Len(c) |->
                 [op |-> c[i].op, n |-> c[i].n, val |-> c[i].val,
                  mode |-> IF IsTurnaround(c[i]) THEN "INPUT_PULLUP"
                           ELSE ModeAfter(c, i - 1, mode0)]]]

\* (calls is bound once, so that it is evaluated once)
WireRun(calls, mode0) ==
    CHOOSE ws \in { WireOps(c, mode0) : c \in {calls} } : TRUE

\* Number of 32-bit data transfers among wire operations.
DataPhasesIn(ops) == Cardinality({ i \in 1..Len(ops) : ops[i].n = 32 })

(***************************************************************************)
(* One iteration of the do/while of dpWrite and of dpRead.                 *)
(***************************************************************************)
\* Mutant: while (--retries), the counter drops before the test.
WhileRetriesPre(r) == [again |-> Dec(r) # 0, retries |-> Dec(r)]

\* while (retries--): the test reads the counter, then the counter drops.
WhileRetries(r) == [again |-> r # 0, retries |-> Dec(r)]

\* case 2 (WAIT): retries--, then the loop condition.
WaitRetry(r) == WhileRetries(Dec(r))

DpIterResult(status, retries, diag, ws, data) ==
    [status |-> status, retries |-> retries, diag |-> diag, ws |-> ws, data |-> data]

dpWriteIter(t, mode, ackbits) ==
    LET head == << wireWrite(packHeader(t.addr, t.APnDP, FALSE), 8),
                   wireReadTurnaround,
                   wireRead(ackbits),
                   wireWriteTurnaround >>
        ack == ToInt(wireReadValue(ackbits))
        idle == WireRun(head \o << wireWrite({}, 8) >>, mode)
    IN  CASE ack = 1 ->
               DpIterResult("ok", t.retries, "none",
                   WireRun(head \o << wireWrite(t.data, 32),
                                      wireWrite(ToWord(evenParity(t.data)), 1),
                                      wireWrite({}, 8) >>, mode),
                   t.data)
          [] ack = 2 ->
               LET w == WaitRetry(t.retries)
               IN  IF w.again
                   THEN DpIterResult("pending", w.retries, "none", idle, t.data)
                   ELSE DpIterResult("fail", w.retries, "WaitTimeout", idle, t.data)
          [] ack = 4 ->
               DpIterResult("fail", t.retries, "Fault", idle, t.data)
          [] OTHER ->
               DpIterResult("fail", t.retries, "ProtocolError", idle, t.data)

\* Mutant: case 4 (FAULT) does what case 2 (WAIT) does.
dpReadIterFaultRetried(t, mode, ackbits, word, pbit) ==
    LET head == << wireWrite(packHeader(t.addr, t.APnDP, TRUE), 8),
                   wireReadTurnaround,
                   wireRead(ackbits) >>
        ack == ToInt(wireReadValue(ackbits))
        tail == << wireWriteTurnaround, wireWrite({}, 8) >>
        idle == WireRun(head \o tail, mode)
    IN  CASE ack = 1 ->
               LET data == wireReadValue(TargetBits(word, 32))
                   par == ToInt(wireReadValue(<<pbit>>))
                   ws == WireRun(head \o << wireRead(TargetBits(word, 32)),
                                            wireRead(<<pbit>>) >> \o tail, mode)
               IN  IF par # evenParity(data)
                   THEN DpIterResult("fail", t.retries, "ParityError", ws, data)
                   ELSE DpIterResult("ok", t.retries, "none", ws, data)
          [] ack \in {2, 4} ->
               LET w == WaitRetry(t.retries)
               IN  IF w.again
                   THEN DpIterResult("pending", w.retries, "none", idle, {})
                   ELSE DpIterResult("fail", w.retries, "WaitTimeout", idle, {})
          [] OTHER ->
               DpIterResult("fail", t.retries, "ProtocolError", idle, {})

\* word and pbit are what the target drives in the data phase; they are
\* sampled only after an OK acknowledge.
dpReadIter(t, mode, ackbits, word, pbit) ==
    LET head == << wireWrite(packHeader(t.addr, t.APnDP, TRUE), 8),
                   wireReadTurnaround,
                   wireRead(ackbits) >>
        ack == ToInt(wireReadValue(ackbits))
        tail == << wireWriteTurnaround, wireWrite({}, 8) >>
        idle == WireRun(head \o tail, mode)
    IN  CASE ack = 1 ->
               LET data == wireReadValue(TargetBits(word, 32))
                   par == ToInt(wireReadValue(<<pbit>>))
                   ws == WireRun(head \o << wireRead(TargetBits(word, 32)),
                                            wireRead(<<pbit>>) >> \o tail, mode)
               IN  IF par # evenParity(data)
                   THEN DpIterResult("fail", t.retries, "ParityError", ws, data)
                   ELSE DpIterResult("ok", t.retries, "none", ws, data)
          [] ack = 2 ->
               LET w == WaitRetry(t.retries)
               IN  IF w.again
                   THEN DpIterResult("pending", w.retries, "none", idle, {})
                   ELSE DpIterResult("fail", w.retries, "WaitTimeout", idle, {})
          [] ack = 4 ->
               DpIterResult("fail", t.retries, "Fault", idle, {})
          [] OTHER ->
               DpIterResult("fail", t.retries, "ProtocolError", idle, {})

(***************************************************************************)
(* State.                                                                  *)
(***************************************************************************)
VARIABLES
    pc,            \* where the running public call waits; "returned" when it has
                   \* returned, "idle" when the caller is about to make a call
    op,            \* the running (or last) public call and its arguments
    ret,           \* return value of the last public call
    frame,         \* locals of the public call: retries, addr, count, data index
    buf,           \* the words the call reads from or writes to through data
    txn,           \* the dpWrite / dpRead call in progress or just returned
    ap,            \* the access dpSelect was called for, while its SELECT write runs
    cache_select,  \* cache.select
    dataPinMode,   \* mode of the data pin
    log,           \* observer: the dpWrite / dpRead calls of the public call, in order
    hdrs,          \* observer: request headers sent by the current dpWrite / dpRead
    dataPhases,    \* observer: 32-bit data phases of the current dpWrite / dpRead
    wire,          \* observer: the wire operations of the last step
    diag,          \* observer: the last LOG_ERROR diagnostic of the public call
    outBefore,     \* observer: the destination word as it was when dpRead was entered
    justBegun,     \* observer: the call before the current one was a begin that returned true
    selected,      \* observer: what the last dpSelect that wrote SELECT and returned
                   \* true has selected, if any since begin invalidated the cache
    failedBefore,  \* observer, for the caller about to make a call: the SELECT
                   \* value whose write failed in the call that has just returned
    selectSent,    \* observer: data of the last SELECT write of the public call
                   \* whose data phase was sent
    fnCall,        \* a call of packHeader or evenParity made on its own: the
                   \* function and its arguments
    fnRet          \* what that call has returned

\* The variables of the object and of its observers.
objVars == << pc, op, ret, frame, buf, txn, ap, cache_select, dataPinMode,
              log, hdrs, dataPhases, wire, diag, outBefore, justBegun,
              selected, failedBefore, selectSent >>

vars == << pc, op, ret, frame, buf, txn, ap, cache_select, dataPinMode,
           log, hdrs, dataPhases, wire, diag, outBefore, justBegun,
           selected, failedBefore, selectSent, fnCall, fnRet >>

NoTxn == [kind |-> "none", addr |-> 0, APnDP |-> FALSE, data |-> {},
          retries |-> 0, status |-> "none", dest |-> 0]

NoAp == [active |-> FALSE, kind |-> "none", addr |-> 0, data |-> {},
         dest |-> 0, select |-> {}]

NoFrame == [retries |-> 0, addr |-> {}, count |-> 0, idx |-> 0]

NoOp == [name |-> "none", port |-> 0, addr |-> 0, APnDP |-> FALSE,
         maddr |-> {}, count |-> 0]

Min(a, b) == IF a < b THEN a ELSE b

\* An observed SELECT value, or none yet.
NoSelect == [valid |-> FALSE, val |-> {}]
SomeSelect(w) == [valid |-> TRUE, val |-> w]

\* No call of packHeader or evenParity on its own.
NoCall == [fn |-> "none", addr |-> 0, APnDP |-> FALSE, RnW |-> FALSE, word |-> {}]
NoRet == [done |-> FALSE, val |-> {}]

\* The object before begin(): cache.select has no defined value yet, and
\* the pins are not configured.
ObjInit ==
    /\ pc = "idle"
    /\ op = NoOp
    /\ ret = FALSE
    /\ frame = NoFrame
    /\ buf = <<>>
    /\ txn = NoTxn
    /\ ap = NoAp
    /\ cache_select \in { {}, CacheInvalid }
    /\ dataPinMode = "UNSET"
    /\ log = <<>>
    /\ hdrs = 0
    /\ dataPhases = 0
    /\ wire = <<>>
    /\ diag = "none"
    /\ outBefore = {}
    /\ justBegun = FALSE
    /\ selected = NoSelect
    /\ failedBefore = NoSelect
    /\ selectSent = NoSelect

Init ==
    /\ ObjInit
    /\ fnCall = NoCall
    /\ fnRet = NoRet

(***************************************************************************)
(* Entering and leaving dpWrite / dpRead, dpSelect, apWrite / apRead.      *)
(***************************************************************************)
LogEntry(kind, addr, APnDP, data) ==
    [rw |-> kind, addr |-> addr, APnDP |-> APnDP, data |-> data, status |-> "pending"]

\* Entry of dpWrite(addr, APnDP, data) or dpRead(addr, APnDP, buf[dest]):
\* unsigned retries = 10.
StartDp(kind, addr, APnDP, data, dest, b, l) ==
    /\ txn' = [kind |-> kind, addr |-> addr, APnDP |-> APnDP, data |-> data,
               retries |-> DpRetries, status |-> "pending", dest |-> dest]
    /\ log' = Append(l, LogEntry(kind, addr, APnDP, data))
    /\ hdrs' = 0
    /\ dataPhases' = 0
    /\ outBefore' = IF kind = "read" THEN b[dest] ELSE outBefore

\* Mutant: the access port is left out of the SELECT value.
SelectValueBankOnly(accessPort, addr) == BitAnd(ToWord(addr), ToWord(240))

\* uint32_t select = (accessPort << 24) | (addr & 0xF0)
SelectValue(accessPort, addr) ==
    BitOr(Shl(ToWord(accessPort), 24), BitAnd(ToWord(addr), ToWord(240)))

\* Mutant: the cache is not consulted.
NeedSelectAlways(select, cached) == TRUE

\* if (select != cache.select)
NeedSelect(select, cached) == select # cached

\* Entry of apWrite / apRead: dpSelect(accessPort, addr) && dpX(addr, true, data).
\* With a matching cache dpSelect returns true at once and the access starts.
StartAp(kind, accessPort, addr, data, dest, b, l) ==
    LET select == SelectValue(accessPort, addr)
    IN  IF NeedSelect(select, cache_select)
        THEN /\ StartDp("write", SELECT, FALSE, select, 0, b, l)
             /\ ap' = [active |-> TRUE, kind |-> kind, addr |-> addr, data |-> data,
                       dest |-> dest, select |-> select]
        ELSE /\ StartDp(kind, addr, TRUE, data, dest, b, l)
             /\ ap' = NoAp

\* return from the public call, after logging diagnostic d (if any)
Return(val, d) ==
    /\ pc' = "returned"
    /\ ret' = val
    /\ frame' = NoFrame
    /\ txn' = NoTxn
    /\ ap' = NoAp
    /\ diag' = IF d = "none" THEN diag ELSE d
    /\ UNCHANGED << op, buf, log, hdrs, dataPhases, outBefore, wire,
                    cache_select, dataPinMode, justBegun,
                    selected, failedBefore, selectSent, fnCall, fnRet >>

\* A caller may go on: the transaction it waits for has returned.
Returned == txn.status \in {"ok", "fail"} /\ ~ap.active

(***************************************************************************)
(* dpWrite and dpRead: one iteration of the do/while per step.             *)
(***************************************************************************)
\* The SELECT value the target holds after the wire operations of an
\* iteration: the 32 data bits of a dpWrite to SELECT, when they were sent.
SelectSentAfter(ops) ==
    LET D == { i \in 1..Len(ops) : ops[i].op = "write" /\ ops[i].n = 32 }
    IN  IF txn.kind = "write" /\ txn.addr = SELECT /\ ~txn.APnDP /\ D # {}
        THEN SomeSelect(ops[CHOOSE i \in D : TRUE].val)
        ELSE selectSent

Finish(r) ==
    /\ txn' = [txn EXCEPT !.status = r.status, !.retries = r.retries]
    /\ log' = [log EXCEPT ![Len(log)].status = r.status, ![Len(log)].data = r.data]
    /\ hdrs' = Min(hdrs + 1, HdrCap)
    /\ dataPhases' = dataPhases + DataPhasesIn(r.ws.ops)
    /\ wire' = r.ws.ops
    /\ dataPinMode' = r.ws.mode
    /\ diag' = IF r.diag = "none" THEN diag ELSE r.diag
    /\ selectSent' = SelectSentAfter(r.ws.ops)

DpWriteAttempt ==
    /\ txn.kind = "write"
    /\ txn.status = "pending"
    /\ \E ackbits \in AckBits :
          \E r \in { dpWriteIter(txn, dataPinMode, ackbits) } : Finish(r)
    /\ UNCHANGED << pc, op, ret, frame, buf, ap, cache_select, outBefore, justBegun,
                    selected, failedBefore, fnCall, fnRet >>

\* data = wireRead(32) stores through the reference before the parity check.
DpReadAttempt ==
    /\ txn.kind = "read"
    /\ txn.status = "pending"
    /\ \E ackbits \in AckBits :
          IF ToInt(wireReadValue(ackbits)) = 1
          THEN \E word \in TargetWords, pbit \in {0, 1} :
                  \E r \in { dpReadIter(txn, dataPinMode, ackbits, word, pbit) } :
                      /\ Finish(r)
                      /\ buf' = [buf EXCEPT ![txn.dest] = r.data]
          ELSE \E r \in { dpReadIter(txn, dataPinMode, ackbits, {}, 0) } :
                  /\ Finish(r)
                  /\ buf' = buf
    /\ UNCHANGED << pc, op, ret, frame, ap, cache_select, outBefore, justBegun,
                    selected, failedBefore, fnCall, fnRet >>

\* Mutant: cache.select = select is done before the result of the write is
\* looked at.
DpSelectReturnCacheFirst ==
    /\ ap.active
    /\ txn.status \in {"ok", "fail"}
    /\ cache_select' = ap.select
    /\ IF txn.status = "ok"
       THEN /\ selected' = SomeSelect(txn.data)
            /\ StartDp(ap.kind, ap.addr, TRUE, ap.data, ap.dest, buf, log)
            /\ ap' = NoAp
       ELSE /\ ap' = NoAp
            /\ UNCHANGED << selected, txn, log, hdrs, dataPhases, outBefore >>
    /\ UNCHANGED << pc, op, ret, frame, buf, dataPinMode, diag, wire, justBegun,
                    failedBefore, selectSent, fnCall, fnRet >>

\* dpSelect after its dpWrite(SELECT, false, select) has returned.
DpSelectReturn ==
    /\ ap.active
    /\ txn.status \in {"ok", "fail"}
    /\ IF txn.status = "ok"
       THEN /\ cache_select' = ap.select
            /\ selected' = SomeSelect(txn.data)
            /\ StartDp(ap.kind, ap.addr, TRUE, ap.data, ap.dest, buf, log)
            /\ ap' = NoAp
       ELSE /\ ap' = NoAp
            /\ UNCHANGED << cache_select, selected, txn, log, hdrs, dataPhases,
                            outBefore >>
    /\ UNCHANGED << pc, op, ret, frame, buf, dataPinMode, diag, wire, justBegun,
                    failedBefore, selectSent, fnCall, fnRet >>

(***************************************************************************)
(* begin                                                                   *)
(***************************************************************************)
\* The caller's step between two transactions: no wire activity.
CallerFrame ==
    UNCHANGED << op, ret, buf, cache_select, dataPinMode, diag, wire, justBegun,
                 selected, failedBefore, selectSent, fnCall, fnRet >>

\* Mutant: only the low bit of the IDCODE is looked at.
IdcodeOkLowBit(idcode) == BitAnd(idcode, ToWord(1)) = ToWord(1)

\* (idcode & 0x0FF00001) != 0x0ba00001 is the failure
IdcodeOk(idcode) == BitAnd(idcode, IdcodeMask) = IdcodePart

\* uint32_t powerAck = CDBGPWRUPACK | CSYSPWRUPACK; (ctrlstat & powerAck) == powerAck
PowerAcked(ctrlstat) ==
    LET powerAck == BitOr(CDBGPWRUPACK, CSYSPWRUPACK)
    IN  BitAnd(ctrlstat, powerAck) = powerAck

\* Mutant: any non-zero low nybble passes.
IdrOkNonZero(idr) == BitAnd(idr, ToWord(15)) # {}

\* (idr & 0xF) != 1 is the failure
IdrOk(idr) == BitAnd(idr, ToWord(15)) = ToWord(1)

\* The line reset and JTAG-to-SWD sequence of begin.
BeginWire(mode) ==
    WireRun(<< wireWriteTurnaround,
               wireWrite(BitIdx, 32),
               wireWrite(BitIdx, 32),
               wireWrite(Word(0, 59294), 16),
               wireWrite(BitIdx, 32),
               wireWrite(BitIdx, 32),
               wireWrite({}, 32),
               wireWrite({}, 32) >>, mode)

\* begin() up to its first transaction, dpRead(IDCODE, false, idcode).
\* buf holds the locals idcode, ctrlstat, idr, which start indeterminate.
CallBegin ==
    /\ pc = "idle"
    /\ \E b \in [1..3 -> PriorWords] :
          /\ buf' = b
          /\ StartDp("read", IDCODE, FALSE, {}, 1, b, <<>>)
    /\ \E ws \in { BeginWire("INPUT_PULLUP") } :
           /\ wire' = ws.ops
           /\ dataPinMode' = ws.mode
    /\ cache_select' = CacheInvalid
    /\ pc' = "begin_idcode"
    /\ op' = [NoOp EXCEPT !.name = "begin"]
    /\ frame' = NoFrame
    /\ ap' = NoAp
    /\ diag' = "none"
    /\ ret' = FALSE
    /\ selected' = NoSelect
    /\ failedBefore' = NoSelect
    /\ selectSent' = NoSelect
    /\ UNCHANGED << justBegun, fnCall, fnRet >>

BeginAfterIdcode ==
    /\ pc = "begin_idcode"
    /\ Returned
    /\ IF txn.status = "fail"
       THEN Return(FALSE, "NoDevice")
       ELSE IF ~IdcodeOk(buf[1])
       THEN Return(FALSE, "UnrecognizedPart")
       ELSE /\ StartDp("write", CTRLSTAT, FALSE, BitOr(CSYSPWRUPREQ, CDBGPWRUPREQ), 0, buf, log)
            /\ pc' = "begin_pwrreq"
            /\ UNCHANGED << frame, ap >>
            /\ CallerFrame

\* unsigned retries = 4; while (retries--) { dpRead(CTRLSTAT, false, ctrlstat) ...
BeginAfterPowerReq ==
    /\ pc = "begin_pwrreq"
    /\ Returned
    /\ IF txn.status = "fail"
       THEN Return(FALSE, "none")
       ELSE LET w == WhileRetries(PowerRetries)
            IN  /\ StartDp("read", CTRLSTAT, FALSE, {}, 2, buf, log)
                /\ pc' = "begin_poll"
                /\ frame' = [frame EXCEPT !.retries = w.retries]
                /\ UNCHANGED ap
                /\ CallerFrame

\* The value of retries when the polling loop is left: by break it keeps
\* its value, by the loop condition it has been decremented once more.
PollExit(acked, r) ==
    IF acked
    THEN [leave |-> TRUE, retries |-> r]
    ELSE LET w == WhileRetries(r)
         IN  [leave |-> ~w.again, retries |-> w.retries]

\* if (!retries) after the loop
PowerUpFailed(r) == r = 0

BeginAfterPoll ==
    /\ pc = "begin_poll"
    /\ Returned
    /\ IF txn.status = "fail"
       THEN Return(FALSE, "none")
       ELSE LET x == PollExit(PowerAcked(buf[2]), frame.retries)
            IN  IF ~x.leave
                THEN /\ StartDp("read", CTRLSTAT, FALSE, {}, 2, buf, log)
                     /\ frame' = [frame EXCEPT !.retries = x.retries]
                     /\ UNCHANGED << pc, ap >>
                     /\ CallerFrame
                ELSE IF PowerUpFailed(x.retries)
                THEN Return(FALSE, "PowerUpTimeout")
                ELSE /\ StartAp("read", 0, MEM_IDR, {}, 3, buf, log)
                     /\ frame' = [frame EXCEPT !.retries = x.retries]
                     /\ pc' = "begin_idr"
                     /\ CallerFrame

BeginAfterIdr ==
    /\ pc = "begin_idr"
    /\ Returned
    /\ IF txn.status = "fail"
       THEN Return(FALSE, "none")
       ELSE IF ~IdrOk(buf[3])
       THEN Return(FALSE, "NotAhbAp")
       ELSE /\ StartAp("write", 0, MEM_CSW, DefaultCsw, 0, buf, log)
            /\ pc' = "begin_csw"
            /\ UNCHANGED frame
            /\ CallerFrame

BeginAfterCsw ==
    /\ pc = "begin_csw"
    /\ Returned
    /\ Return(txn.status = "ok", "none")

(***************************************************************************)
(* memStore and memLoad (the one-word forms call these with count 1).      *)
(***************************************************************************)
\* The buffers of a given length over a set of words.
Buffers(words, n) == [1..n -> words]

\* Entry of a public call other than begin.  clockPin and dataPin are set
\* only by begin, so the caller has called begin before.
Enter(name, port, addr, APnDP, maddr, count, b) ==
    /\ pc = "idle"
    /\ dataPinMode # "UNSET"
    /\ op' = [name |-> name, port |-> port, addr |-> addr, APnDP |-> APnDP,
              maddr |-> maddr, count |-> count]
    /\ buf' = b
    /\ diag' = "none"
    /\ ret' = FALSE
    /\ wire' = <<>>
    /\ failedBefore' = NoSelect
    /\ UNCHANGED << cache_select, dataPinMode, justBegun, selected, selectSent,
                    fnCall, fnRet >>

\* memStore(addr, data, count) up to its first transaction, apWrite(0, MEM_TAR, addr)
CallMemStore ==
    \E maddr \in MemAddrs, count \in 0..MaxCount :
      LET b == StoreBuffer(count)
      IN
        /\ Enter("memStore", 0, 0, FALSE, maddr, count, b)
        /\ StartAp("write", 0, MEM_TAR, maddr, 0, b, <<>>)
        /\ frame' = [retries |-> 0, addr |-> maddr, count |-> count, idx |-> 1]
        /\ pc' = "memStore_tar"

\* memLoad(addr, data, count) up to its first transaction, apWrite(0, MEM_TAR, addr)
CallMemLoad ==
    \E maddr \in MemAddrs, count \in 0..MaxCount :
      \E b \in Buffers(PriorWords, count) :
        /\ Enter("memLoad", 0, 0, FALSE, maddr, count, b)
        /\ StartAp("write", 0, MEM_TAR, maddr, 0, b, <<>>)
        /\ frame' = [retries |-> 0, addr |-> maddr, count |-> count, idx |-> 1]
        /\ pc' = "memLoad_tar"

\* data++; addr++; count--;
MemAdvance(f) == [f EXCEPT !.idx = @ + 1, !.addr = Inc(@), !.count = Dec(@)]

\* Mutant: the result of the access is ignored.
MemAbortNever(status) == FALSE

\* if (!apWrite(...)) return false;  /  if (!apRead(...)) return false;
MemAbort(status) == status = "fail"

\* while (count) { apWrite(0, MEM_DRW, *data) ... } return true;
MemStoreLoop(f) ==
    IF f.count # 0
    THEN /\ StartAp("write", 0, MEM_DRW, buf[f.idx], 0, buf, log)
         /\ frame' = f
         /\ pc' = "memStore_drw"
         /\ CallerFrame
    ELSE Return(TRUE, "none")

MemStoreStep ==
    /\ pc \in {"memStore_tar", "memStore_drw"}
    /\ Returned
    /\ IF MemAbort(txn.status)
       THEN Return(FALSE, "none")
       ELSE MemStoreLoop(IF pc = "memStore_tar" THEN frame ELSE MemAdvance(frame))

\* while (count) { apRead(0, MEM_DRW, *data) ... } return true;
MemLoadLoop(f) ==
    IF f.count # 0
    THEN /\ StartAp("read", 0, MEM_DRW, {}, f.idx, buf, log)
         /\ frame' = f
         /\ pc' = "memLoad_drw"
         /\ CallerFrame
    ELSE Return(TRUE, "none")

MemLoadStep ==
    /\ pc \in {"memLoad_tar", "memLoad_drw"}
    /\ Returned
    /\ IF MemAbort(txn.status)
       THEN Return(FALSE, "none")
       ELSE MemLoadLoop(IF pc = "memLoad_tar" THEN frame ELSE MemAdvance(frame))

(***************************************************************************)
(* Direct calls of the access-port and debug-port layers.                  *)
(***************************************************************************)
CallApWrite ==
    \E port \in Ports, addr \in ApRegs :
        /\ Enter("apWrite", port, addr, TRUE, {}, 0, StoreBuffer(1))
        /\ StartAp("write", port, addr, StoreBuffer(1)[1], 0, StoreBuffer(1), <<>>)
        /\ frame' = NoFrame
        /\ pc' = "ap"

CallApRead ==
    \E port \in Ports, addr \in ApRegs, b \in Buffers(PriorWords, 1) :
        /\ Enter("apRead", port, addr, TRUE, {}, 0, b)
        /\ StartAp("read", port, addr, {}, 1, b, <<>>)
        /\ frame' = NoFrame
        /\ pc' = "ap"

CallDpWrite ==
    \E addr \in DpWriteRegs, APnDP \in BOOLEAN :
        /\ Enter("dpWrite", 0, addr, APnDP, {}, 0, StoreBuffer(1))
        /\ StartDp("write", addr, APnDP, StoreBuffer(1)[1], 0, StoreBuffer(1), <<>>)
        /\ frame' = NoFrame
        /\ ap' = NoAp
        /\ pc' = "dp"

CallDpRead ==
    \E addr \in DpReadRegs, APnDP \in BOOLEAN, b \in Buffers(PriorWords, 1) :
        /\ Enter("dpRead", 0, addr, APnDP, {}, 0, b)
        /\ StartDp("read", addr, APnDP, {}, 1, b, <<>>)
        /\ frame' = NoFrame
        /\ ap' = NoAp
        /\ pc' = "dp"

\* apWrite / apRead / dpWrite / dpRead hand their result to the caller.
DirectReturn ==
    /\ pc \in {"ap", "dp"}
    /\ Returned
    /\ Return(txn.status = "ok", "none")

\* The SELECT value whose write by dpSelect failed in the public call, if
\* one did.
FailedInCall ==
    LET S == { i \in 1..Len(log) : /\ log[i].rw = "write" /\ ~log[i].APnDP
                                    /\ log[i].addr = SELECT /\ log[i].status = "fail"
                                    /\ op.name \notin {"dpWrite", "dpRead"} }
    IN  IF S # {} THEN SomeSelect(log[CHOOSE i \in S : TRUE].data) ELSE NoSelect

\* The caller takes the return value; the observers of the finished call
\* are cleared for the next one.
CallerResumes ==
    /\ pc = "returned"
    /\ pc' = "idle"
    /\ op' = NoOp
    /\ ret' = FALSE
    /\ buf' = <<>>
    /\ log' = <<>>
    /\ hdrs' = 0
    /\ dataPhases' = 0
    /\ wire' = <<>>
    /\ diag' = "none"
    /\ outBefore' = {}
    /\ justBegun' = (op.name = "begin" /\ ret)
    /\ failedBefore' = FailedInCall
    /\ selectSent' = NoSelect
    /\ UNCHANGED << frame, txn, ap, cache_select, dataPinMode, selected,
                    fnCall, fnRet >>

(***************************************************************************)
(* Specification.                                                          *)
(***************************************************************************)
\* The callers of the library.
Call ==
    \/ CallerResumes
    \/ CallBegin
    \/ CallMemStore
    \/ CallMemLoad
    \/ CallApWrite
    \/ CallApRead
    \/ CallDpWrite
    \/ CallDpRead

\* The steps of the library itself.
Run ==
    \/ DpWriteAttempt
    \/ DpReadAttempt
    \/ DpSelectReturn
    \/ BeginAfterIdcode
    \/ BeginAfterPowerReq
    \/ BeginAfterPoll
    \/ BeginAfterIdr
    \/ BeginAfterCsw
    \/ MemStoreStep
    \/ MemLoadStep
    \/ DirectReturn

Next == Call \/ Run

Spec == Init /\ [][Next]_vars

\* The processor keeps executing a call that has been entered.
FairSpec == Spec /\ WF_vars(Run)

(***************************************************************************)
(* packHeader and evenParity called on their own, on arguments of the      *)
(* caller's choice; the object is left as it is.                           *)
(***************************************************************************)
\* Words with at most k bits set.
RECURSIVE WordsUpTo(_)
WordsUpTo(k) ==
    IF k = 0 THEN { {} }
    ELSE LET W == WordsUpTo(k - 1)
         IN  W \cup { w \cup {b} : w \in W, b \in BitIdx }

\* The addr arguments of packHeader and the word arguments of evenParity.
HeaderAddrs == 0 .. (2^AddrBits - 1)
ParityWords ==
    LET W == WordsUpTo(MaxSetBits)
    IN  W \cup { BitIdx \ w : w \in W }

FnInit ==
    /\ ObjInit
    /\ fnRet = NoRet
    /\ \/ \E addr \in HeaderAddrs, APnDP \in BOOLEAN, RnW \in BOOLEAN :
             fnCall = [fn |-> "packHeader", addr |-> addr, APnDP |-> APnDP,
                       RnW |-> RnW, word |-> {}]
       \/ \E w \in ParityWords :
             fnCall = [NoCall EXCEPT !.fn = "evenParity", !.word = w]

\* uint8_t packHeader(unsigned addr, bool APnDP, bool RnW)
RunPackHeader ==
    /\ fnCall.fn = "packHeader"
    /\ ~fnRet.done
    /\ fnRet' = [done |-> TRUE,
                 val |-> BitAnd(packHeader(fnCall.addr, fnCall.APnDP, fnCall.RnW), 0..7)]
    /\ UNCHANGED << objVars, fnCall >>

\* bool evenParity(uint32_t word)
RunEvenParity ==
    /\ fnCall.fn = "evenParity"
    /\ ~fnRet.done
    /\ fnRet' = [done |-> TRUE, val |-> ToWord(evenParity(fnCall.word))]
    /\ UNCHANGED << objVars, fnCall >>

FnNext == RunPackHeader \/ RunEvenParity

FnSpec == FnInit /\ [][FnNext]_vars

(***************************************************************************)
(* Properties.                                                             *)
(***************************************************************************)
\* The acknowledge read by the last iteration of dpWrite / dpRead, -1 when
\* the last wire activity was not such an iteration.
LastAck ==
    IF Len(wire) >= 3 /\ wire[3].op = "read" /\ wire[3].n = 3
    THEN ToInt(wire[3].val)
    ELSE -1

\* A dpWrite / dpRead is running or has just returned to its caller.
InTxn == txn.kind # "none" /\ hdrs >= 1

\* Number of set bits of a word is odd.
OddBits(w) == Cardinality(w) % 2 = 1

\* The last iteration read a data word whose parity bit was right.
LastParityGood ==
    /\ Len(wire) >= 5
    /\ wire[4].op = "read" /\ wire[4].n = 32
    /\ wire[5].op = "read" /\ wire[5].n = 1
    /\ (wire[5].val = {0}) = OddBits(wire[4].val)

\* The 32-bit data phase of the last iteration comes after its acknowledge.
DataPhaseAfterAck ==
    \E i \in 4..Len(wire) : wire[i].n = 32

IsSelectWrite(e) == e.rw = "write" /\ ~e.APnDP /\ e.addr = 8
IsApAccess(e)    == e.APnDP
IsPoll(e)        == e.rw = "read" /\ ~e.APnDP /\ e.addr = 4
IsTarWrite(e)    == e.rw = "write" /\ e.APnDP /\ e.addr = 4
IsDrw(e, rw)     == e.rw = rw /\ e.APnDP /\ e.addr = 12

LogIdx == 1..Len(log)

\* C1: dpWrite / dpRead answered WAIT every time sends at most 10 request
\* headers and has returned failure after the 10th WAIT.
C1_WaitBudget ==
    InTxn => /\ hdrs <= 10
             /\ (hdrs = 10 /\ LastAck = 2 => txn.status = "fail" /\ diag = "WaitTimeout")

\* C2: every call that has been entered eventually returns, whatever the
\* target answers.
C2_EveryCallReturns == (pc \notin {"idle", "returned"}) ~> (pc = "returned")

\* C3: for k in 0..9, after k WAIT acknowledges the transaction is still
\* retrying without having transferred data, and an OK acknowledge to header
\* k+1 (with a right parity bit, for a read) ends it successfully with one
\* 32-bit data phase, performed after the acknowledge.
C3_WaitThenOk ==
    (InTxn /\ hdrs <= 10) =>
        /\ (LastAck = 2 /\ hdrs <= 9) =>
              (txn.status = "pending" /\ dataPhases = 0)
        /\ (LastAck = 1 /\ (txn.kind = "read" => LastParityGood)) =>
              /\ txn.status = "ok"
              /\ log[Len(log)].status = "ok"
              /\ dataPhases = 1
              /\ DataPhaseAfterAck

\* 9 WAITs, then OK on the 10th header of a read.
C3_Witness ==
    /\ InTxn /\ txn.kind = "read" /\ hdrs = 10
    /\ LastAck = 1 /\ LastParityGood /\ txn.status = "ok"

\* The successful CTRLSTAT polls of begin, and those among them that carry
\* both CSYSPWRUPACK and CDBGPWRUPACK.
OkPolls == { i \in LogIdx : IsPoll(log[i]) /\ log[i].status = "ok" }
AckedPolls == { i \in OkPolls : {29, 31} \subseteq log[i].data }

\* C4: when 4 CTRLSTAT polls of begin succeed and none carries both power-up
\* acknowledges, begin returns false and issues no access-port transaction
\* (no SELECT write, no IDR read, no CSW write).
C4_PowerUpExhaustedIsFatal ==
    (op.name = "begin" /\ Cardinality(OkPolls) = 4 /\ AckedPolls = {}) =>
        /\ \A i \in LogIdx : ~IsSelectWrite(log[i]) /\ ~IsApAccess(log[i])
        /\ pc \in {"begin_poll", "returned"}
        /\ (pc = "returned" => ~ret)

\* C5: when the n-th CTRLSTAT poll of begin (n in 1..4) is the first that
\* carries both power-up acknowledges, begin stops polling after n reads and
\* goes on to the IDR read of the access port; it does not report a power-up
\* timeout.
C5_PowerUpWithinBudget ==
    (op.name = "begin" /\ AckedPolls # {} /\ Cardinality(OkPolls) <= 4
        /\ pc # "begin_poll") =>
        /\ Cardinality(AckedPolls) = 1
        /\ \A i \in OkPolls : \A j \in AckedPolls : i <= j
        /\ diag # "PowerUpTimeout"
        /\ \E i \in LogIdx : \A j \in AckedPolls : i > j

\* C6: a failed IDCODE read, or an IDCODE with
\* (idcode & 0x0FF00001) != 0x0BA00001, makes begin return false with no
\* further transaction; a matching IDCODE is followed by the CTRLSTAT write
\* of CSYSPWRUPREQ | CDBGPWRUPREQ.
C6_IdcodeFailStop ==
    (op.name = "begin" /\ pc # "begin_idcode") =>
        /\ Len(log) >= 1
        /\ log[1].rw = "read" /\ ~log[1].APnDP /\ log[1].addr = 0
        /\ IF log[1].status = "ok"
              /\ log[1].data \cap ({0} \cup (20..27)) = {0, 21, 23, 24, 25, 27}
           THEN /\ Len(log) >= 2
                /\ log[2].rw = "write" /\ ~log[2].APnDP /\ log[2].addr = 4
                /\ log[2].data = {28, 30}
           ELSE /\ Len(log) = 1
                /\ pc = "returned"
                /\ ~ret

\* begin has read IDCODE 0xFFFFFFFF and returned false.
C6_Witness ==
    /\ op.name = "begin" /\ pc = "returned" /\ ~ret
    /\ Len(log) = 1 /\ log[1].status = "ok" /\ log[1].data = 0..31
    /\ diag = "UnrecognizedPart"

\* The successful IDR reads of access port 0 with low nybble 1.
GoodIdrReads ==
    { i \in LogIdx : /\ log[i].rw = "read" /\ log[i].APnDP /\ log[i].addr = 252
                     /\ log[i].status = "ok"
                     /\ log[i].data \cap (0..3) = {0} }

\* C7: begin returns true only after a successful IDR read with low nybble
\* 1, and then its last transaction is the successful AP write of 0x52 to
\* CSW; a failed transaction or an IDR with another low nybble is the last
\* transaction of begin, which returns false.
C7_BeginResult ==
    (op.name = "begin") =>
        /\ \A i \in LogIdx : log[i].status = "fail" => i = Len(log)
        /\ \A i \in LogIdx :
              (log[i].rw = "read" /\ log[i].APnDP /\ log[i].status = "ok"
                  /\ log[i].data \cap (0..3) # {0}) =>
              (i = Len(log) /\ pc \in {"begin_idr", "returned"})
        /\ (pc = "returned" /\ ret) =>
              /\ GoodIdrReads # {}
              /\ log[Len(log)] = [rw |-> "write", addr |-> 0, APnDP |-> TRUE,
                                  data |-> {1, 4, 6}, status |-> "ok"]
        /\ (pc = "returned" /\ ~ret) =>
              \/ log[Len(log)].status = "fail"
              \/ log[Len(log)].rw = "read"

\* begin has returned true.
C7_Witness == op.name = "begin" /\ pc = "returned" /\ ret

InMem == op.name \in {"memStore", "memLoad"}

\* Direction of the DRW accesses of the running memory call.
MemRw == IF op.name = "memStore" THEN "write" ELSE "read"

\* Position of the TAR write in the log: first, or second after one SELECT.
TarIdx == IF Len(log) >= 1 /\ IsSelectWrite(log[1]) THEN 2 ELSE 1

\* C8: a memStore / memLoad whose transactions all succeed issues one TAR
\* write carrying addr, then count DRW accesses in buffer order, with no TAR
\* or SELECT write among them; at most one SELECT write precedes the TAR
\* write, and none right after a successful begin.
C8_OneTarThenDrw ==
    InMem =>
        /\ \A i \in LogIdx : IsSelectWrite(log[i]) => (i = 1 /\ ~justBegun)
        /\ \A i \in LogIdx : IsTarWrite(log[i]) => (i = TarIdx /\ log[i].data = op.maddr)
        /\ \A i \in LogIdx : i > TarIdx => IsDrw(log[i], MemRw)
        /\ (pc = "returned" /\ ret) =>
              /\ Len(log) = TarIdx + op.count
              /\ IsTarWrite(log[TarIdx])
              /\ \A k \in 1..op.count :
                    /\ log[TarIdx + k].status = "ok"
                    /\ log[TarIdx + k].data = buf[k]
                    /\ op.name = "memStore" => buf[k] = ToWord(17 * k)

\* memStore of three words right after a successful begin: TAR, DRW, DRW, DRW.
C8_Witness ==
    /\ op.name = "memStore" /\ pc = "returned" /\ ret /\ justBegun
    /\ op.count = 3 /\ Len(log) = 4

\* The DRW accesses issued so far by the running memory call.
DrwIssued == { i \in LogIdx : IsDrw(log[i], MemRw) }

\* C9: memStore / memLoad stop at the first failing transaction: nothing is
\* issued after it (no DRW access after a failed TAR or SELECT write, exactly
\* k DRW accesses when the k-th fails) and the call returns false.
C9_AbortOnFirstFailure ==
    InMem =>
        /\ \A i \in LogIdx : log[i].status = "fail" => i = Len(log)
        /\ \A i \in LogIdx :
              (log[i].status = "fail" /\ ~IsDrw(log[i], MemRw)) => DrwIssued = {}
        /\ (Len(log) >= 1 /\ log[Len(log)].status = "fail") =>
              /\ pc \in {"memStore_tar", "memStore_drw", "memLoad_tar", "memLoad_drw",
                         "returned"}
              /\ (pc = "returned" => ~ret)
        /\ (pc = "returned" /\ ret) => \A i \in LogIdx : log[i].status = "ok"

\* memStore of three words whose second DRW write failed: two DRW accesses.
C9_Witness ==
    /\ op.name = "memStore" /\ op.count = 3 /\ pc = "returned" /\ ~ret
    /\ Cardinality(DrwIssued) = 2
    /\ log[Len(log)].status = "fail" /\ IsDrw(log[Len(log)], "write")

\* C10: when dpRead returns false the caller's output word is as it was
\* when dpRead was entered.
C10_NoDataOnFailure ==
    (txn.kind = "read" /\ txn.status = "fail") => buf[txn.dest] = outBefore

\* The SELECT value of an access port and register address: the port number
\* in bits 24-31 and address bits 4-7 in place.
ExpectedSelect(port, addr) ==
    { i + 24 : i \in ToWord(port) } \cup (ToWord(addr) \cap (4..7))

\* The running (or just returned) public call is a direct apWrite / apRead.
IsApCall == op.name \in {"apWrite", "apRead"}
ApRw == IF op.name = "apWrite" THEN "write" ELSE "read"

\* The transactions of one apWrite / apRead: at most one SELECT write, which
\* carries the port and bank of the call and comes first, and at most one
\* access with APnDP = true, which comes last; a call that returns true has
\* made that access.
C11_Shape ==
    IsApCall =>
        /\ Len(log) \in 1..2
        /\ Len(log) = 2 => IsSelectWrite(log[1]) /\ log[1].status = "ok"
        /\ IsSelectWrite(log[1]) => log[1].data = ExpectedSelect(op.port, op.addr)
        /\ LET e == log[Len(log)]
           IN  /\ (Len(log) = 2 \/ ~IsSelectWrite(e)) =>
                     (e.APnDP /\ e.addr = op.addr /\ e.rw = ApRw)
               /\ (pc = "returned" /\ ret) => (e.APnDP /\ e.status = "ok")

\* Entry of apWrite / apRead: the first transaction is the access itself
\* when the last successful select chose the same port and bank, and the
\* SELECT write otherwise (always, when none has succeeded since begin).
C11_Step ==
    (pc = "idle" /\ pc' = "ap") =>
        LET want == ExpectedSelect(op'.port, op'.addr)
        IN  /\ Len(log') = 1
            /\ IF selected = SomeSelect(want)
               THEN log'[1].APnDP
               ELSE IsSelectWrite(log'[1]) /\ log'[1].data = want

\* C11: each successful apWrite / apRead issues exactly one transaction with
\* APnDP = true, preceded by exactly one SELECT write when
\* (port << 24) | (addr & 0xF0) differs from the value of the previous
\* successful select or when none has succeeded since begin, and by no
\* SELECT write otherwise.
C11_SelectOnlyOnChange == []C11_Shape /\ [][C11_Step]_vars

\* apRead on port 1 that found its port and bank selected by an earlier
\* call, and made the access without a SELECT write.
C11_Witness ==
    /\ op.name = "apRead" /\ op.port = 1 /\ pc = "returned" /\ ret
    /\ Len(log) = 1 /\ log[1].APnDP
    /\ selected = SomeSelect(ExpectedSelect(1, op.addr))

\* The SELECT write of the running apWrite / apRead has not succeeded.
SelectNotDone == IsApCall /\ Len(log) >= 1 /\ IsSelectWrite(log[1]) /\ log[1].status # "ok"

\* After the SELECT write of apWrite / apRead has failed nothing else is
\* issued, and the call returns false.
C12_Shape ==
    (SelectNotDone /\ log[1].status = "fail") =>
        /\ Len(log) = 1
        /\ pc \in {"ap", "returned"}
        /\ (pc = "returned" => ~ret)

\* While the SELECT write of apWrite / apRead has not succeeded cache.select
\* keeps its value, and the step of dpSelect that sees the failure starts no
\* transaction; the next apWrite / apRead to the port and
\* bank whose SELECT write failed starts with that SELECT write again.
C12_Step ==
    /\ SelectNotDone => cache_select' = cache_select
    /\ (ap.active /\ txn.status = "fail") => (txn' = txn /\ log' = log)
    /\ (pc = "idle" /\ pc' = "ap" /\ failedBefore.valid
          /\ failedBefore.val = ExpectedSelect(op'.port, op'.addr)) =>
            log' = << [rw |-> "write", addr |-> 8, APnDP |-> FALSE,
                       data |-> failedBefore.val, status |-> "pending"] >>

\* C12: when the SELECT write inside dpSelect fails, cache.select keeps its
\* previous value, apWrite / apRead returns false without issuing the
\* transaction with APnDP = true, and the next apWrite / apRead to the same
\* port and bank issues the same SELECT write again.
C12_FailedSelectKeepsCache == []C12_Shape /\ [][C12_Step]_vars

\* apWrite whose SELECT write was answered FAULT: it has returned false, and
\* cache.select is not the value it tried to select.
C12_Witness ==
    /\ op.name = "apWrite" /\ pc = "returned" /\ ~ret
    /\ Len(log) = 1 /\ IsSelectWrite(log[1]) /\ log[1].status = "fail"
    /\ diag = "Fault"
    /\ cache_select # log[1].data
    /\ log[1].data = ExpectedSelect(op.port, op.addr)

\* Clock pulses of a sequence of wire operations.
RECURSIVE ClockPulses(_)
ClockPulses(ops) ==
    IF ops = <<>> THEN 0 ELSE Head(ops).n + ClockPulses(Tail(ops))

\* The last iteration was one of dpRead and its acknowledge was OK.
ReadAcked == InTxn /\ txn.kind = "read" /\ LastAck = 1

\* C13: after an OK acknowledge dpRead returns true iff the parity bit it
\* received is 1 exactly when the 32-bit word it received has an odd number
\* of set bits; when it is not, dpRead reports a parity error and returns
\* false after the write-turnaround and 8 idle bits, having produced as many
\* clock pulses (8 + 1 + 3 + 32 + 1 + 1 + 8) as a successful read.
C13_ParityCheckOnRead ==
    ReadAcked =>
        /\ Len(wire) = 7
        /\ wire[4].op = "read" /\ wire[4].n = 32
        /\ wire[5].op = "read" /\ wire[5].n = 1
        /\ wire[6].op = "trnW"
        /\ wire[7] = [op |-> "write", n |-> 8, val |-> {}, mode |-> "OUTPUT"]
        /\ ClockPulses(wire) = 8 + 1 + 3 + 32 + 1 + 1 + 8
        /\ txn.status = IF LastParityGood THEN "ok" ELSE "fail"
        /\ (txn.status = "fail" => diag = "ParityError")
        /\ log[Len(log)].status = txn.status

\* dpRead has received 0x04770021 (9 set bits) with parity bit 0 and failed.
C13_Witness ==
    /\ ReadAcked /\ txn.status = "fail" /\ diag = "ParityError"
    /\ wire[4].val = {0, 5, 16, 17, 18, 20, 21, 22, 26} /\ wire[5].val = {}
    /\ ClockPulses(wire) = 54

\* dpSelect's write of SELECT has been sent and dpSelect has yet to do
\* cache.select = select.
SelectReturning == ap.active /\ txn.status = "ok"

IdleBits == [op |-> "write", n |-> 8, val |-> {}, mode |-> "OUTPUT"]

\* The write-turnarounds among the wire operations of the last step.
WriteTurnarounds == { i \in 1..Len(wire) : wire[i].op = "trnW" }

\* C15: after every iteration of dpWrite / dpRead, whether it returns
\* (success, FAULT, unrecognized acknowledge, parity error) or goes on after
\* WAIT, the wire operations of the iteration start with the 8-bit header
\* driven by the probe and end with one write-turnaround followed, after the
\* data and parity bits of a write if any, by exactly 8 idle zero bits; the
\* probe is left driving the data line, as it is after the reset sequence of
\* begin, which ends with zero bits.
C15_BusFraming ==
    /\ dataPinMode \in {"UNSET", "OUTPUT"}
    /\ wire # <<>> =>
          LET last == wire[Len(wire)]
          IN  last.op = "write" /\ last.val = {} /\ last.n >= 8 /\ last.mode = "OUTPUT"
    /\ InTxn =>
          /\ wire[1].op = "write" /\ wire[1].n = 8 /\ wire[1].mode = "OUTPUT"
          /\ Cardinality(WriteTurnarounds) = 1
          /\ wire[Len(wire)] = IdleBits
          /\ \A t \in WriteTurnarounds : \A k \in (t+1)..(Len(wire)-1) :
                /\ wire[k].op = "write" /\ wire[k].n \in {32, 1}
                /\ txn.kind = "write" /\ LastAck = 1

\* dpWrite answered WAIT: header, turnaround, acknowledge, write-turnaround,
\* 8 idle bits, and the loop goes on.
C15_Witness ==
    /\ InTxn /\ txn.kind = "write" /\ txn.status = "pending" /\ LastAck = 2
    /\ Len(wire) = 5 /\ wire[4].op = "trnW" /\ wire[5] = IdleBits

\* The last iteration of dpWrite / dpRead read an acknowledge other than OK
\* and WAIT: FAULT (4) or an unrecognized value (0, 3, 5, 6, 7).
Refused == InTxn /\ LastAck \in {0, 3, 4, 5, 6, 7}

\* The iteration that reads such an acknowledge ends the call in failure,
\* with the diagnostic of its case; after the acknowledge it has done the
\* write-turnaround and the 8 idle bits only, and the call has transferred
\* no 32-bit data phase.
C16_Refused ==
    Refused =>
        /\ txn.status = "fail" /\ log[Len(log)].status = "fail"
        /\ diag = IF LastAck = 4 THEN "Fault" ELSE "ProtocolError"
        /\ dataPhases = 0
        /\ Len(wire) = 5
        /\ \A i \in 1..Len(wire) : wire[i].n \notin {32} /\ (i > 3 => wire[i].op # "read")
        /\ wire[4].op = "trnW" /\ wire[5].op = "write" /\ wire[5].n = 8

\* Once dpWrite / dpRead has failed, the next step is its caller's: no wire
\* operation, no further transaction of the failed call.
C16_Step ==
    (txn.status = "fail") =>
        /\ wire' = wire
        /\ hdrs' = hdrs /\ dataPhases' = dataPhases
        /\ log' = log

\* C16: an acknowledge of FAULT (4), or of any value other than OK (1),
\* WAIT (2) and FAULT (4), makes dpWrite / dpRead return false after that
\* attempt without sending another header, and no 32-bit data phase (data
\* bits or parity bit) is transmitted or read for that call.
C16_NoRetryOnFaultOrUnknown == []C16_Refused /\ [][C16_Step]_vars

\* dpRead answered FAULT to its first header.
C16_Witness ==
    /\ Refused /\ txn.kind = "read" /\ hdrs = 1 /\ LastAck = 4
    /\ txn.status = "fail" /\ diag = "Fault"

\* Wire operations i < j of the last step that transfer bits, with nothing
\* but turnarounds between them.
NextTransfer(i, j) ==
    /\ i < j
    /\ wire[i].op \in {"read", "write"} /\ wire[j].op \in {"read", "write"}
    /\ \A k \in (i+1)..(j-1) : wire[k].op \in {"trnW", "trnR"}

\* C17: in every call, each wireRead runs with the data pin in input
\* (pull-up) mode and each wireWrite with it in output mode; each turnaround
\* produces one clock pulse; between a read and a write that follow each
\* other, in either order, there is exactly one turnaround.  The first
\* operation of a step is a write, or the write-turnaround of begin, and
\* follows the write that ended the step before.
C17_DataLineDirection ==
    /\ \A i \in 1..Len(wire) :
          /\ wire[i].op = "read" => wire[i].mode = "INPUT_PULLUP"
          /\ wire[i].op = "write" => wire[i].mode = "OUTPUT"
          /\ wire[i].op \in {"trnW", "trnR"} => wire[i].n = 1
          /\ \A j \in 1..Len(wire) :
                (NextTransfer(i, j) /\ wire[i].op # wire[j].op) => j = i + 2
    /\ wire # <<>> =>
          /\ wire[1].op \in {"write", "trnW"}
          /\ wire[1].op = "trnW" => (op.name = "begin" /\ hdrs = 0)
          /\ wire[Len(wire)].op = "write"

\* An acknowledged DRW read of memLoad: header written, acknowledge, data
\* and parity read in input mode, idle bits written in output mode.
C17_Witness ==
    /\ op.name = "memLoad" /\ InTxn /\ txn.kind = "read" /\ LastAck = 1
    /\ Len(wire) = 7
    /\ wire[1].mode = "OUTPUT" /\ wire[2].op = "trnR"
    /\ wire[3].mode = "INPUT_PULLUP" /\ wire[4].mode = "INPUT_PULLUP"
    /\ wire[5].mode = "INPUT_PULLUP" /\ wire[6].op = "trnW"
    /\ wire[7].mode = "OUTPUT"

(***************************************************************************)
(* The TAR of the target's access port, as the CSW written by begin        *)
(* configures it: 32-bit accesses, increment by a single word.             *)
(***************************************************************************)
\* The size field (bits 0-2) and the increment field (bits 4-5) of a CSW.
CswSize(csw) == ToInt(BitAnd(csw, ToWord(7)))
CswAddrInc(csw) == ToInt(Shr(BitAnd(csw, ToWord(48)), 4))

\* Bytes by which TAR advances after a DRW access: the size of the access,
\* 2^size bytes, when the increment field says single.
TarStep(csw) == IF CswAddrInc(csw) = 1 THEN 2^CswSize(csw) ELSE 0

\* w + n modulo 2^32
RECURSIVE IncBy(_, _)
IncBy(w, n) == IF n = 0 THEN w ELSE IncBy(Inc(w), n - 1)

\* The successful TAR write of the running memStore / memLoad and the
\* successful DRW accesses that followed it.
TarWritten == { i \in LogIdx : IsTarWrite(log[i]) /\ log[i].status = "ok" }
DrwDone == { i \in LogIdx : IsDrw(log[i], MemRw) /\ log[i].status = "ok" }

\* The target's TAR: the address written, advanced once per DRW access.
DeviceTar ==
    LET t == CHOOSE i \in TarWritten : TRUE
    IN  IncBy(log[t].data, TarStep(DefaultCsw) * Cardinality(DrwDone))

\* C18: in the loop of a memStore / memLoad that follows a successful begin,
\* after each successful DRW access (addr++ done, the next access about to
\* be made) the local addr equals the target's TAR, which the access port
\* has advanced by one word.
C18_LocalAddrTracksTar ==
    (InMem /\ justBegun /\ pc \in {"memStore_drw", "memLoad_drw"} /\ TarWritten # {}
        /\ txn.status = "pending" /\ hdrs = 0 /\ ~ap.active) =>
        frame.addr = DeviceTar

\* packHeader has returned.
HeaderDone == fnCall.fn = "packHeader" /\ fnRet.done

AddrBit(a, i) == (a \div (2^i)) % 2 = 1

\* C19: the byte packHeader returns has bit 0 set, bit 1 = APnDP,
\* bit 2 = RnW, bits 3 and 4 = bits 2 and 3 of addr, bit 5 set iff an odd
\* number of APnDP, RnW, addr bit 2, addr bit 3 are set, bit 6 clear and
\* bit 7 set; no other bit of addr bears on it.
C19_PackHeaderLayout ==
    HeaderDone =>
        LET a2 == AddrBit(fnCall.addr, 2)
            a3 == AddrBit(fnCall.addr, 3)
            in == << fnCall.APnDP, fnCall.RnW, a2, a3 >>
            odd == Cardinality({ i \in 1..4 : in[i] }) % 2 = 1
        IN  fnRet.val = {0, 7} \cup (IF fnCall.APnDP THEN {1} ELSE {})
                               \cup (IF fnCall.RnW THEN {2} ELSE {})
                               \cup (IF a2 THEN {3} ELSE {})
                               \cup (IF a3 THEN {4} ELSE {})
                               \cup (IF odd THEN {5} ELSE {})

\* packHeader(0xF8, true, false) has returned 0x93: bits 3 and 4 carry
\* address bits 2 and 3 (0 and 1), the parity bit is clear.
C19_Witness ==
    /\ HeaderDone /\ fnCall.addr = 248 /\ fnCall.APnDP /\ ~fnCall.RnW
    /\ fnRet.val = {0, 1, 4, 7}

\* evenParity has returned.
ParityDone == fnCall.fn = "evenParity" /\ fnRet.done

\* C20: evenParity(w) is 1 iff w has an odd number of set bits.
C20_EvenParityIsPopcountParity ==
    ParityDone =>
        (fnRet.val = IF Cardinality(fnCall.word) % 2 = 1 THEN {0} ELSE {})

\* evenParity(0x80010100), three set bits in different bytes, has returned 1.
C20_Witness ==
    /\ ParityDone /\ fnCall.word = {8, 16, 31} /\ fnRet.val = {0}

=============================================================================
